---------------------------- MODULE Spec2Model ----------------------------
(***************************************************************************)
(* A model of the three analysis scripts of the repository:                *)
(*   1_script.py  activation dates and success dates of partner companies  *)
(*   2_script.py  monthly percentage of successful recently closed         *)
(*                companies                                                *)
(*   3_script.py  cohort revenue matrix and its heatmap                    *)
(* The database is a snapshot fixed by Init; every action is one step of   *)
(* a script's run.  Dates are days of the year 2023 (1 = January 1st), so  *)
(* day arithmetic and EXTRACT(MONTH ...) are both computed.  A nullable    *)
(* value is a sequence of length 0 (NULL / None / NaT) or 1.               *)
(***************************************************************************)
EXTENDS Integers, Sequences, FiniteSets, TLC

VARIABLES
    pc,                 \* position of the running script
    phase,              \* 1_script.py: "module" (lines 177-187) or "main"
    live,               \* number of database connections currently open
    printed,            \* diagnostic messages printed so far
    exc,                \* the uncaught exception that ended the run, or "none"
    injected,           \* the database failed a well-formed query of the run
    company,            \* table company
    conversations,      \* table conversations
    company_identifiers,\* table company_identifiers
    stripe_invoice,     \* table stripe_invoice
    df_companies,       \* 1_script.py: result of fetch_companies_from_db
    idx,                \* 1_script.py: position of the iterrows loop
    results,            \* 1_script.py: rows collected by the loop
    df_success_dates,   \* 1_script.py: result of fetch_successful_conversations
    month,              \* 2_script.py / 3_script.py: loop variable of main
    companies,          \* 2_script.py: rows of get_recently_closed_companies
    successful_conversations, \* 2_script.py: company id -> metric of the month
    successful_company_percentages, \* 2_script.py: one entry per month
    all_dataframes,     \* 3_script.py: one dataframe per cohort month
    final_dataframe,    \* 3_script.py: concatenation of all_dataframes
    plotted,            \* 3_script.py: the dataframe handed to the heatmap
    synthetic_mode      \* 3_script.py: the data source the configuration asks
                        \* for (no code of the script reads such an option)

vars == <<pc, phase, live, printed, exc, injected, company, conversations,
          company_identifiers, stripe_invoice, df_companies, idx, results,
          df_success_dates, month, companies, successful_conversations,
          successful_company_percentages, all_dataframes, final_dataframe,
          plotted, synthetic_mode>>

dbVars == <<company, conversations, company_identifiers, stripe_invoice>>
s1Vars == <<df_companies, idx, results, df_success_dates>>
s2Vars == <<companies, successful_conversations,
           successful_company_percentages>>
s3Vars == <<all_dataframes, final_dataframe, plotted, synthetic_mode>>

-----------------------------------------------------------------------------
(* Bounds of the model *)

\* companies in the company table of a 1_script.py run
MaxCompanies == 2
\* early days 1..MaxDay that may hold rows in a run over success histories
MaxDay == 3
\* days 1..MaxWinDay that may hold rows in the trailing-window inputs
MaxWinDay == 4
\* companies in the company table of a 2_script.py run
MaxClosed == 2
\* companies in the company table of a 3_script.py run
MaxInvoiced == 2

-----------------------------------------------------------------------------
(* Nullable values and small helpers *)

Null == <<>>
Some(v) == <<v>>
IsNull(o) == Len(o) = 0
Val(o) == o[1]

RECURSIVE SumTotal(_)
\* SUM(total) over the rows of S
SumTotal(S) ==
    IF S = {} THEN 0
    ELSE LET r == CHOOSE x \in S : TRUE
         IN  r.total + SumTotal(S \ {r})

SetMin(S) == CHOOSE x \in S : \A y \in S : x <= y
SetMax(S) == CHOOSE x \in S : \A y \in S : x >= y

\* all orderings of a finite set, as sequences without repetition
Orderings(S) ==
    {s \in [1..Cardinality(S) -> S] : \A i, j \in 1..Cardinality(S) :
                                          i # j => s[i] # s[j]}

\* a dataframe or None
NoneDF == [isNone |-> TRUE, rows |-> <<>>]
DF(rows) == [isNone |-> FALSE, rows |-> rows]

-----------------------------------------------------------------------------
(* 1_script.py: fetch_companies_from_db *)

ActivationThreshold == 350
SuccessThreshold == 500
HorizonDays == 60

\* daily_conversations: SUM(total) GROUP BY account_id, date
daily_conversations ==
    {[account_id |-> k[1], date |-> k[2],
      daily_total |-> SumTotal({r \in conversations :
                                   r.account_id = k[1] /\ r.date = k[2]})] :
        k \in {<<r.account_id, r.date>> : r \in conversations}}

\* COALESCE(dc.daily_total, 0) of the LEFT JOIN on account_id and date
DailyTotalOrZero(account, date) ==
    LET m == {dc \in daily_conversations :
                 dc.account_id = account /\ dc.date = date}
    IN  IF m = {} THEN 0 ELSE (CHOOSE dc \in m : TRUE).daily_total

total_3_day(dc1) ==
    dc1.daily_total + DailyTotalOrZero(dc1.account_id, dc1.date - 1)
                    + DailyTotalOrZero(dc1.account_id, dc1.date - 2)

\* a plausible slip: the boundary excluded
three_day_conversations_strict ==
    {[account_id |-> dc1.account_id, date |-> dc1.date] :
        dc1 \in {d \in daily_conversations :
                    total_3_day(d) > ActivationThreshold}}

\* three_day_conversations: the dates whose trailing sum is >= 350
three_day_conversations ==
    {[account_id |-> dc1.account_id, date |-> dc1.date] :
        dc1 \in {d \in daily_conversations :
                    total_3_day(d) >= ActivationThreshold}}

\* first_activation LEFT JOINed to a company: MIN(date) or NULL
first_activation(account) ==
    LET ds == {t.date : t \in {x \in three_day_conversations :
                                  x.account_id = account}}
    IN  IF ds = {} THEN Null ELSE Some(SetMin(ds))

\* the rows of the final SELECT, in no particular order
CompanyRows ==
    {[company_id |-> c.id, activation_date |-> first_activation(c.id)] :
        c \in {x \in company : x.partner}}

-----------------------------------------------------------------------------
(* 1_script.py: fetch_successful_conversations *)

adjust == <<0, -25, 65, 165>>

\* CumulativeConversations: the successful rows of the company in
\* [activation_date, end_date], each with the running total up to it
CumulativeConversations(company_id, activation_date, end_date) ==
    LET rows == {r \in conversations :
                    /\ r.account_id = company_id
                    /\ r.successful
                    /\ r.date >= activation_date
                    /\ r.date <= end_date}
    IN  {[date |-> r.date,
          cum_total |-> SumTotal({q \in rows : q.date <= r.date})] :
            r \in rows}

\* the one row of the query of lines 142-161
SuccessQuery(company_id, activation_date, days) ==
    LET end_date == activation_date + HorizonDays
        hit == {r \in CumulativeConversations(company_id, activation_date,
                                              end_date) :
                   r.cum_total >= SuccessThreshold}
    IN  IF hit = {}
        THEN [company_id |-> company_id, success_date |-> Null,
              cum_total |-> Null]
        ELSE [company_id |-> company_id,
              success_date |-> Some(SetMin({r.date : r \in hit}) + days),
              cum_total |-> Some(SetMax({r.cum_total : r \in hit}))]

-----------------------------------------------------------------------------
(* 1_script.py: the run *)

ConnError == "Error establishing database connection"
ConnFailed == "Failed to establish database connection."
FetchError == "Error fetching data from database"

\* where the run goes when the module-level code or main is over
AfterPhase == IF phase = "module" THEN "start" ELSE "done"
NextPhase == "main"

\* establish_connection and the if/else on its result (lines 178-187, 210-231)
Connect1 ==
    /\ pc = "start"
    /\ \/ /\ live' = live + 1
          /\ pc' = "connected"
          /\ UNCHANGED <<phase, printed>>
       \/ /\ printed' = printed \cup {ConnError, ConnFailed}
          /\ pc' = AfterPhase
          /\ phase' = NextPhase
          /\ UNCHANGED live
    /\ UNCHANGED <<exc, injected, dbVars, s1Vars, month, s2Vars, s3Vars>>

\* fetch_companies_from_db(conn): the query's rows in the order the database
\* returns them, or None when read_sql_query raises
FetchCompanies ==
    /\ pc = "connected"
    /\ \/ /\ \E order \in Orderings(CompanyRows) :
                 df_companies' = DF(order)
          /\ UNCHANGED <<printed, injected>>
       \/ /\ df_companies' = NoneDF
          /\ printed' = printed \cup {FetchError}
          /\ injected' = TRUE
    /\ pc' = "fetched"
    /\ idx' = 0
    /\ results' = <<>>
    /\ UNCHANGED <<phase, live, exc, dbVars, df_success_dates, month, s2Vars,
                   s3Vars>>

\* the except branch of fetch_successful_conversations: print, return None
ReturnNone ==
    /\ df_success_dates' = NoneDF
    /\ printed' = printed \cup {FetchError}
    /\ pc' = "returned"
    /\ UNCHANGED <<idx, results>>

\* one iteration of the loop of lines 135-166 (idx counts from 0)
Iterate ==
    /\ pc = "fetched"
    /\ \/ \* df_companies is None: iterrows raises AttributeError
          /\ df_companies.isNone
          /\ ReturnNone
          /\ UNCHANGED injected
       \/ /\ ~df_companies.isNone
          /\ idx < Len(df_companies.rows)
          /\ LET row == df_companies.rows[idx + 1]
             IN  \/ \* adjust[idx] raises IndexError
                    /\ idx + 1 > Len(adjust)
                    /\ ReturnNone
                    /\ UNCHANGED injected
                 \/ \* a NULL activation date is formatted into the query as
                    \* 'None' or 'NaT': the database rejects it
                    /\ idx + 1 <= Len(adjust)
                    /\ IsNull(row.activation_date)
                    /\ ReturnNone
                    /\ UNCHANGED injected
                 \/ \* read_sql_query raises
                    /\ idx + 1 <= Len(adjust)
                    /\ ~IsNull(row.activation_date)
                    /\ ReturnNone
                    /\ injected' = TRUE
                 \/ /\ idx + 1 <= Len(adjust)
                    /\ ~IsNull(row.activation_date)
                    /\ results' = Append(results,
                                         SuccessQuery(row.company_id,
                                                      Val(row.activation_date),
                                                      adjust[idx + 1]))
                    /\ idx' = idx + 1
                    /\ UNCHANGED <<pc, printed, df_success_dates, injected>>
    /\ UNCHANGED <<phase, live, exc, dbVars, df_companies, month, s2Vars,
                   s3Vars>>

\* pd.concat(results) and the return (lines 169-171); concat of an empty
\* list raises ValueError
Concat ==
    /\ pc = "fetched"
    /\ ~df_companies.isNone
    /\ idx = Len(df_companies.rows)
    /\ \/ /\ results = <<>>
          /\ ReturnNone
       \/ /\ results # <<>>
          /\ df_success_dates' = DF(results)
          /\ pc' = "returned"
          /\ UNCHANGED <<idx, results, printed>>
    /\ UNCHANGED <<phase, live, exc, injected, dbVars, df_companies, month,
                   s2Vars, s3Vars>>

\* module level, line 183: df_success_dates['success_date'] = ...
ModuleConvert ==
    /\ pc = "returned"
    /\ phase = "module"
    /\ IF df_success_dates.isNone
       THEN /\ exc' = "TypeError"
            /\ pc' = "crashed"
       ELSE /\ pc' = "converted"
            /\ UNCHANGED exc
    /\ UNCHANGED <<phase, live, printed, injected, dbVars, s1Vars, month,
                   s2Vars, s3Vars>>

\* module level, line 185: conn.close(); main() runs next
ModuleClose ==
    /\ pc = "converted"
    /\ phase = "module"
    /\ live' = live - 1
    /\ pc' = "start"
    /\ phase' = "main"
    /\ UNCHANGED <<printed, exc, injected, dbVars, s1Vars, month, s2Vars,
                   s3Vars>>

\* main, line 215: conn.close()
MainClose ==
    /\ pc = "returned"
    /\ phase = "main"
    /\ live' = live - 1
    /\ pc' = "released"
    /\ UNCHANGED <<phase, printed, exc, injected, dbVars, s1Vars, month,
                   s2Vars, s3Vars>>

\* df_2023 of line 218: the rows whose success date lies in 2023
df_2023 ==
    {i \in 1..Len(df_success_dates.rows) :
        /\ ~IsNull(df_success_dates.rows[i].success_date)
        /\ Val(df_success_dates.rows[i].success_date) >= 1
        /\ Val(df_success_dates.rows[i].success_date) <= 365}

\* main, lines 217-229: the conversion, the 2023 filter and the chart; with
\* no row of 2023 the chart has no data and, depending on the pandas
\* version, plot() draws nothing or raises TypeError
MainConvert ==
    /\ pc = "released"
    /\ phase = "main"
    /\ \/ /\ df_success_dates.isNone
          /\ exc' = "TypeError"
          /\ pc' = "crashed"
       \/ /\ ~df_success_dates.isNone
          /\ pc' = "done"
          /\ UNCHANGED exc
       \/ /\ ~df_success_dates.isNone
          /\ df_2023 = {}
          /\ exc' = "TypeError"
          /\ pc' = "crashed"
    /\ UNCHANGED <<phase, live, printed, injected, dbVars, s1Vars, month,
                   s2Vars, s3Vars>>

Next1 ==
    \/ Connect1
    \/ FetchCompanies
    \/ Iterate
    \/ Concat
    \/ ModuleConvert
    \/ ModuleClose
    \/ MainClose
    \/ MainConvert

-----------------------------------------------------------------------------
(* 1_script.py: the database snapshots of the runs *)

\* what one account's day holds: the rows of that day
NoRows == {}
DayRows(account, date, kind) ==
    {[account_id |-> account, date |-> date, total |-> k[1],
      successful |-> k[2]] : k \in kind}

\* the table built from a choice of day kinds
Table(choice, accounts, dates) ==
    UNION {DayRows(a, d, choice[<<a, d>>]) : a \in accounts, d \in dates}

\* the variables of the other scripts, at rest
Idle1 ==
    /\ company_identifiers = {}
    /\ stripe_invoice = {}
    /\ month = 0
    /\ companies = <<>>
    /\ successful_conversations = <<>>
    /\ successful_company_percentages = <<>>
    /\ all_dataframes = <<>>
    /\ final_dataframe = NoneDF
    /\ plotted = NoneDF
    /\ synthetic_mode = FALSE

Start1 ==
    /\ pc = "start"
    /\ phase = "module"
    /\ live = 0
    /\ printed = {}
    /\ exc = "none"
    /\ injected = FALSE
    /\ df_companies = NoneDF
    /\ idx = 0
    /\ results = <<>>
    /\ df_success_dates = NoneDF

\* runs over success histories: a day holds nothing, successful or
\* unsuccessful conversations; rows lie on the first days and on a late day
\* that is inside the 60-day horizon of an activation on day 2 or later and
\* outside the horizon of an activation on day 1
RunKinds == {NoRows, {<<250, TRUE>>}, {<<350, FALSE>>}}
LateDate == HorizonDays + 2
RunDates == (1..MaxDay) \cup {LateDate}

InitActivation ==
    /\ Start1
    /\ Idle1
    /\ \E n \in 0..MaxCompanies :
          /\ \E p \in [1..n -> BOOLEAN] :
                company = {[id |-> c, partner |-> p[c], close_date |-> Null] :
                              c \in 1..n}
          /\ \E choice \in [(1..n) \X RunDates -> RunKinds] :
                conversations = Table(choice, 1..n, RunDates)

SpecActivation == InitActivation /\ [][Next1]_vars

\* runs over trailing-window inputs: a company with rows on consecutive
\* days, of totals that add up to, below and above the activation threshold,
\* and a second company with at most one row, below the threshold
WinKinds == {NoRows, {<<100, TRUE>>}, {<<175, FALSE>>},
             {<<175, TRUE>>, <<175, FALSE>>}, {<<350, TRUE>>}}
WinDates == 1..MaxWinDay
OtherKinds == {NoRows, {<<200, TRUE>>}}

InitRolling ==
    /\ Start1
    /\ Idle1
    /\ \E p \in [{1, 2} -> BOOLEAN] :
          company = {[id |-> c, partner |-> p[c], close_date |-> Null] :
                        c \in {1, 2}}
    /\ \E choice \in [{1} \X WinDates -> WinKinds], other \in OtherKinds :
          conversations = Table(choice, {1}, WinDates)
                              \cup DayRows(2, 2, other)

SpecRolling == InitRolling /\ [][Next1]_vars

\* runs over many partner companies: up to one company more than adjust has
\* entries, each with one day of conversations that activates it, successful
\* and reaching the success threshold or not
MaxPartners == 5
PartnerKinds == {{<<500, TRUE>>}, {<<350, FALSE>>}}

InitManyCompanies ==
    /\ Start1
    /\ Idle1
    /\ \E n \in 1..MaxPartners :
          /\ company = {[id |-> c, partner |-> TRUE, close_date |-> Null] :
                           c \in 1..n}
          /\ \E choice \in [(1..n) \X {1} -> PartnerKinds] :
                conversations = Table(choice, 1..n, {1})

SpecManyCompanies == InitManyCompanies /\ [][Next1]_vars

-----------------------------------------------------------------------------
(* 1_script.py: properties *)

\* the total of a calendar day, 0 when the day holds no conversation
DayTotal(account, d) ==
    SumTotal({r \in conversations : r.account_id = account /\ r.date = d})

TrailingSum(account, d) ==
    DayTotal(account, d) + DayTotal(account, d - 1) + DayTotal(account, d - 2)

\* every calendar date on which a trailing sum can be positive
Calendar ==
    IF conversations = {} THEN {}
    ELSE SetMin({r.date : r \in conversations}) ..
         SetMax({r.date : r \in conversations}) + 2

\* the earliest calendar date whose trailing sum reaches the threshold
EarliestCrossing(account) ==
    LET ds == {d \in Calendar : TrailingSum(account, d) >= ActivationThreshold}
    IN  IF ds = {} THEN Null ELSE Some(SetMin(ds))

\* C3: the activation date fetch_companies_from_db returns for a company is
\* the earliest calendar date D with total(D) + total(D-1) + total(D-2) >= 350,
\* days without conversations counting 0, and is absent when there is none.
C3_ActivationIsEarliestCrossing ==
    (pc = "fetched" /\ ~df_companies.isNone) =>
        \A i \in 1..Len(df_companies.rows) :
            df_companies.rows[i].activation_date
                = EarliestCrossing(df_companies.rows[i].company_id)

\* a company activated on a date whose trailing sum is exactly 350, made of
\* that day and the day two days before, with an empty day in between
C3_Witness ==
    /\ pc = "fetched"
    /\ ~df_companies.isNone
    /\ \E i \in 1..Len(df_companies.rows) :
          LET row == df_companies.rows[i]
          IN  /\ ~IsNull(row.activation_date)
              /\ TrailingSum(row.company_id, Val(row.activation_date))
                    = ActivationThreshold
              /\ DayTotal(row.company_id, Val(row.activation_date) - 2) > 0
              /\ DayTotal(row.company_id, Val(row.activation_date) - 1) = 0

\* the activation date of the company whose result is results[i]
ActivationOf(i) == Val(df_companies.rows[i].activation_date)

\* C4: a success date reported by fetch_successful_conversations lies within
\* [activation_date, activation_date + 60 days] of its company, at every
\* position of the input ordering.
C4_SuccessDateWithinHorizon ==
    \A i \in 1..Len(results) :
        ~IsNull(results[i].success_date) =>
            /\ Val(results[i].success_date) >= ActivationOf(i)
            /\ Val(results[i].success_date) <= ActivationOf(i) + HorizonDays

\* the company of row i never reaches a threshold: no activation date, or no
\* cumulative successful total of 500 within its horizon
NeverReaches(i) ==
    LET row == df_companies.rows[i]
    IN  \/ IsNull(row.activation_date)
        \/ \A r \in CumulativeConversations(row.company_id,
                                            Val(row.activation_date),
                                            Val(row.activation_date)
                                                + HorizonDays) :
              r.cum_total < SuccessThreshold

\* C5: when some company never reaches a threshold, its crossing date is
\* reported as absent, the other companies still get their rows, and the run
\* goes on without an exception (the database answering every query).
C5_AbsentCrossingTolerated ==
    (/\ ~injected
     /\ ~df_companies.isNone
     /\ Len(df_companies.rows) <= Len(adjust)
     /\ \E i \in 1..Len(df_companies.rows) : NeverReaches(i)) =>
        /\ exc = "none"
        /\ pc = "returned" =>
              /\ ~df_success_dates.isNone
              /\ Len(df_success_dates.rows) = Len(df_companies.rows)
              /\ \A i \in 1..Len(df_companies.rows) :
                    /\ df_success_dates.rows[i].company_id
                          = df_companies.rows[i].company_id
                    /\ NeverReaches(i) =>
                          IsNull(df_success_dates.rows[i].success_date)

\* C8: when the company query returns no companies,
\* fetch_successful_conversations returns an empty result, not None, and the
\* run raises no exception.
C8_EmptyInputIsEmptyResult ==
    (/\ ~injected
     /\ ~df_companies.isNone
     /\ df_companies.rows = <<>>) =>
        /\ exc = "none"
        /\ pc = "returned" => df_success_dates = DF(<<>>)

\* C9: the success date reported for a company is the one reported for it at
\* any other position of the input ordering: it depends on the company's own
\* activation date and conversations only.
C9_SuccessDateIndependentOfOrder ==
    \A i \in 1..Len(results) :
        \A j \in 1..Len(df_companies.rows) :
            j <= Len(adjust) =>
                results[i].success_date
                    = SuccessQuery(df_companies.rows[i].company_id,
                                   ActivationOf(i),
                                   adjust[j]).success_date

\* the running total of the successful conversations of a company from its
\* activation date to day d
RunningTotal(company_id, activation_date, d) ==
    SumTotal({r \in conversations :
                 /\ r.account_id = company_id
                 /\ r.successful
                 /\ r.date >= activation_date
                 /\ r.date <= d})

\* the days of the horizon that hold a successful conversation of the company
\* and on which its running total has reached the success threshold
CrossedDays(company_id, activation_date) ==
    {d \in activation_date..(activation_date + HorizonDays) :
        /\ \E r \in conversations :
              r.account_id = company_id /\ r.successful /\ r.date = d
        /\ RunningTotal(company_id, activation_date, d) >= SuccessThreshold}

\* C11: for every company whose cumulative successful total reaches 500 within
\* its horizon, the cum_total returned with its success date is the running
\* total at the crossing date, the first running total that is >= 500, and
\* not the running total of a later date of the horizon.
C11_CumTotalAtCrossing ==
    \A i \in 1..Len(results) :
        LET company_id == df_companies.rows[i].company_id
            crossed == CrossedDays(company_id, ActivationOf(i))
        IN  crossed # {} =>
                /\ ~IsNull(results[i].cum_total)
                /\ Val(results[i].cum_total)
                      = RunningTotal(company_id, ActivationOf(i),
                                     SetMin(crossed))

\* C12: for any number N >= 1 of companies returned by
\* fetch_companies_from_db, N greater than 4 included, all of them activated
\* and the database answering every query, fetch_successful_conversations
\* returns a result with exactly one row per input company, carrying that
\* company's id: the rows computed for earlier companies are not discarded.
C12_OneRowPerCompany ==
    (/\ pc = "returned"
     /\ ~injected
     /\ ~df_companies.isNone
     /\ Len(df_companies.rows) >= 1
     /\ \A i \in 1..Len(df_companies.rows) :
           ~IsNull(df_companies.rows[i].activation_date)) =>
        /\ ~df_success_dates.isNone
        /\ Len(df_success_dates.rows) = Len(df_companies.rows)
        /\ \A i \in 1..Len(df_companies.rows) :
              df_success_dates.rows[i].company_id
                  = df_companies.rows[i].company_id

-----------------------------------------------------------------------------
(* Calendar of 2023 *)

DaysInMonth == <<31, 28, 31, 30, 31, 30, 31, 31, 30, 31, 30, 31>>

RECURSIVE DaysBefore(_)
\* the days of 2023 before month m
DaysBefore(m) ==
    IF m = 1 THEN 0 ELSE DaysBefore(m - 1) + DaysInMonth[m - 1]

MonthStarts == [m \in 1..12 |-> 1 + DaysBefore(m)]

\* datetime(2023, m, 1) as a day of the year
FirstOfMonth(m) == MonthStarts[m]

MonthOfDay ==
    [d \in 1..365 |->
        CHOOSE m \in 1..12 :
            MonthStarts[m] <= d /\ d < MonthStarts[m] + DaysInMonth[m]]

\* EXTRACT(MONTH FROM date) of a day of 2023
MonthOf(d) == MonthOfDay[d]

\* date.day
DayOfMonth(d) == d - FirstOfMonth(MonthOf(d)) + 1

Min2(a, b) == IF a <= b THEN a ELSE b

-----------------------------------------------------------------------------
(* 2_script.py: the queries and the classification *)

FirstMonth == 1
LastMonth == 8
SuccessfulThreshold == 1500

\* start_date of get_recently_closed_companies (line 53); December 1st of
\* 2022 is 30 days before day 1
start_date(m) ==
    IF m # 1 THEN FirstOfMonth(m - 1) ELSE 1 - 31

\* end_date of get_recently_closed_companies (lines 54-55)
end_date(m) ==
    LET e == FirstOfMonth(m) + 31
        last == DayOfMonth(e - DayOfMonth(e))
    IN  FirstOfMonth(m) + Min2(31, last) - 1

\* the ids of the rows of the query of lines 59-63
RecentlyClosed(m) ==
    {c.id : c \in {x \in company :
                      /\ ~IsNull(x.close_date)
                      /\ Val(x.close_date) >= start_date(m)
                      /\ Val(x.close_date) <= end_date(m)}}

\* BONUSES.get(month, {}).get(company_id, 0)
Bonus(m, company_id) ==
    CASE m = 3 /\ company_id = 10 -> 80
      [] m = 4 /\ company_id = 11 -> 100
      [] m = 4 /\ company_id = 3  -> 260
      [] m = 5 /\ company_id = 12 -> 600
      [] m = 5 /\ company_id = 11 -> 400
      [] m = 6 /\ company_id = 12 -> 350
      [] m = 7 /\ company_id = 13 -> 200
      [] m = 8 /\ company_id = 15 -> 400
      [] OTHER -> 0

\* account_mapping: the rows of the query of lines 96-100
AccountMapping(company_ids) ==
    {<<ci.company_id, ci.account_identifier>> :
        ci \in {x \in company_identifiers : x.company_id \in company_ids}}

\* successful_conversations: the rows (account_id, SUM(total)) of the query
\* of lines 104-112
SuccessfulRows(accounts, m) ==
    LET rows == {r \in conversations :
                    /\ r.account_id \in accounts
                    /\ r.successful
                    /\ MonthOf(r.date) = m}
    IN  {<<a, SumTotal({r \in rows : r.account_id = a})>> :
            a \in {r.account_id : r \in rows}}

\* the dictionary built by lines 116-121: company id -> total + bonus, for
\* the companies whose account has a row
ResultDict(mapping, rows, m) ==
    LET hit(company_id) == {p \in mapping \X rows :
                               p[1][1] = company_id /\ p[1][2] = p[2][1]}
        keys == {c \in {mp[1] : mp \in mapping} : hit(c) # {}}
    IN  [c \in keys |->
            (CHOOSE p \in hit(c) : TRUE)[2][2] + Bonus(m, c)]

\* a plausible slip: the boundary excluded
successful_companies_strict(result) ==
    {c \in DOMAIN result : result[c] > SuccessfulThreshold}

\* successful_companies of line 160
successful_companies(result) ==
    {c \in DOMAIN result : result[c] >= SuccessfulThreshold}

\* percentage of lines 163-166, as the fraction num / den
Percentage(result) ==
    LET active_companies == DOMAIN result
    IN  IF active_companies # {}
        THEN [num |-> Cardinality(successful_companies(result)) * 100,
              den |-> Cardinality(active_companies)]
        ELSE [num |-> 0, den |-> 1]

-----------------------------------------------------------------------------
(* 2_script.py: the run *)

\* `with establish_connection() as conn` on None: AttributeError up to
\* Python 3.10, TypeError from 3.11 on
WithNoneErrors == {"AttributeError", "TypeError"}
DatabaseError == "psycopg2.Error"

\* main: establish_connection and the if/else on its result
Connect2 ==
    /\ pc = "start"
    /\ \/ /\ live' = live + 1
          /\ month' = FirstMonth
          /\ pc' = "loop"
          /\ UNCHANGED printed
       \/ /\ printed' = printed \cup {ConnError, ConnFailed}
          /\ pc' = "done"
          /\ UNCHANGED <<live, month>>
    /\ UNCHANGED <<phase, exc, injected, dbVars, s1Vars, s2Vars, s3Vars>>

\* get_recently_closed_companies, line 57: the helper's own connection
ClosedConnect ==
    /\ pc = "loop"
    /\ month <= LastMonth
    /\ \/ /\ live' = live + 1
          /\ pc' = "closed_query"
          /\ UNCHANGED <<printed, exc>>
       \/ /\ printed' = printed \cup {ConnError}
          /\ \E e \in WithNoneErrors : exc' = e
          /\ pc' = "crashed"
          /\ UNCHANGED live
    /\ UNCHANGED <<phase, injected, dbVars, s1Vars, month, s2Vars, s3Vars>>

\* get_recently_closed_companies, lines 58-65: the query and the return; the
\* with block ends the transaction and does not close the connection
ClosedQuery ==
    /\ pc = "closed_query"
    /\ \/ /\ \E order \in Orderings(RecentlyClosed(month)) :
                 companies' = order
          /\ pc' = "have_companies"
          /\ UNCHANGED <<exc, injected>>
       \/ /\ injected' = TRUE
          /\ exc' = DatabaseError
          /\ pc' = "crashed"
          /\ UNCHANGED companies
    /\ UNCHANGED <<phase, live, printed, dbVars, s1Vars, month,
                   successful_conversations, successful_company_percentages,
                   s3Vars>>

company_ids == {companies[i] : i \in 1..Len(companies)}

\* lines 158-169 of main: classify, compute and store the percentage, go to
\* the next month
Classify(result) ==
    /\ successful_conversations' = result
    /\ successful_company_percentages' =
          Append(successful_company_percentages, Percentage(result))
    /\ month' = month + 1
    /\ pc' = "loop"

\* get_successful_conversations_for_companies with no company (lines 80-81)
\* and the rest of the iteration
NoCompanies ==
    /\ pc = "have_companies"
    /\ company_ids = {}
    /\ Classify(<<>>)
    /\ UNCHANGED <<phase, live, printed, exc, injected, dbVars, s1Vars,
                   companies, s3Vars>>

\* get_successful_conversations_for_companies, line 93: its own connection
SuccessConnect ==
    /\ pc = "have_companies"
    /\ company_ids # {}
    /\ \/ /\ live' = live + 1
          /\ pc' = "success_query"
          /\ UNCHANGED <<printed, exc>>
       \/ /\ printed' = printed \cup {ConnError}
          /\ \E e \in WithNoneErrors : exc' = e
          /\ pc' = "crashed"
          /\ UNCHANGED live
    /\ UNCHANGED <<phase, injected, dbVars, s1Vars, month, s2Vars, s3Vars>>

\* get_successful_conversations_for_companies, lines 94-123, and the rest of
\* the iteration.  With no account the second query reads `IN ()`, which the
\* database rejects.
SuccessQueries ==
    /\ pc = "success_query"
    /\ LET mapping == AccountMapping(company_ids)
           rows == SuccessfulRows({mp[2] : mp \in mapping}, month)
       IN  \/ /\ mapping # {}
              /\ Classify(ResultDict(mapping, rows, month))
              /\ UNCHANGED <<exc, injected>>
           \/ /\ mapping = {}
              /\ exc' = DatabaseError
              /\ pc' = "crashed"
              /\ UNCHANGED <<injected, month, successful_conversations,
                             successful_company_percentages>>
           \/ /\ injected' = TRUE
              /\ exc' = DatabaseError
              /\ pc' = "crashed"
              /\ UNCHANGED <<month, successful_conversations,
                             successful_company_percentages>>
    /\ UNCHANGED <<phase, live, printed, dbVars, s1Vars, companies, s3Vars>>

\* main, lines 170-180: conn.close() after the loop, then the chart
LoopEnd ==
    /\ pc = "loop"
    /\ month > LastMonth
    /\ live' = live - 1
    /\ pc' = "done"
    /\ UNCHANGED <<phase, printed, exc, injected, dbVars, s1Vars, month,
                   s2Vars, s3Vars>>

Next2 ==
    \/ Connect2
    \/ ClosedConnect
    \/ ClosedQuery
    \/ NoCompanies
    \/ SuccessConnect
    \/ SuccessQueries
    \/ LoopEnd

-----------------------------------------------------------------------------
(* 2_script.py: the database snapshots of the runs *)

\* company ids, the first ones with entries in BONUSES
CompanyPool == <<3, 11, 12, 10, 13, 15>>
ClosedIds == {CompanyPool[i] : i \in 1..MaxClosed}

\* the account of a company in company_identifiers
AccountOf(c) == 100 + c

\* close dates: March 1st and April 30th
CloseDates == {FirstOfMonth(3), FirstOfMonth(5) - 1}

\* what an account's April holds: nothing, a total that reaches 1500 only
\* with a bonus, or a total of 1500 beside unsuccessful conversations
AprilKinds == {NoRows, {<<1240, TRUE>>}, {<<1500, TRUE>>, <<900, FALSE>>}}
ConversationDate == FirstOfMonth(4) + 14

Idle2 ==
    /\ phase = "main"
    /\ stripe_invoice = {}
    /\ df_companies = NoneDF
    /\ idx = 0
    /\ results = <<>>
    /\ df_success_dates = NoneDF
    /\ all_dataframes = <<>>
    /\ final_dataframe = NoneDF
    /\ plotted = NoneDF
    /\ synthetic_mode = FALSE

InitSuccessRate ==
    /\ pc = "start"
    /\ live = 0
    /\ printed = {}
    /\ exc = "none"
    /\ injected = FALSE
    /\ month = 0
    /\ companies = <<>>
    /\ successful_conversations = <<>>
    /\ successful_company_percentages = <<>>
    /\ Idle2
    /\ \E close \in [ClosedIds -> CloseDates] :
          company = {[id |-> c, partner |-> FALSE,
                      close_date |-> Some(close[c])] : c \in ClosedIds}
    /\ \E known \in SUBSET ClosedIds :
          company_identifiers =
              {[company_id |-> c, account_identifier |-> AccountOf(c)] :
                  c \in known}
    /\ \E choice \in [ClosedIds -> AprilKinds] :
          conversations =
              UNION {DayRows(AccountOf(c), ConversationDate, choice[c]) :
                        c \in ClosedIds}

SpecSuccessRate == InitSuccessRate /\ [][Next2]_vars

-----------------------------------------------------------------------------
(* 2_script.py: properties *)

\* the companies with a recorded metric in month m: recently closed, with an
\* account that has successful conversations in the month
Recorded(m) ==
    {c \in RecentlyClosed(m) :
        \E ci \in company_identifiers :
            /\ ci.company_id = c
            /\ \E r \in conversations :
                  /\ r.account_id = ci.account_identifier
                  /\ r.successful
                  /\ MonthOf(r.date) = m}

\* the metric of a company in month m: its successful total plus its bonus
Metric(c, m) ==
    SumTotal({r \in conversations :
                 /\ \E ci \in company_identifiers :
                       /\ ci.company_id = c
                       /\ ci.account_identifier = r.account_id
                 /\ r.successful
                 /\ MonthOf(r.date) = m}) + Bonus(m, c)

Successful(m) == {c \in Recorded(m) : Metric(c, m) >= SuccessfulThreshold}

Ended == pc \in {"done", "crashed"}

\* C1: every connection that was opened is closed before the run ends, on
\* every exit path: no run ends with an open connection.
C1_NoConnectionLeftOpen ==
    Ended => live = 0

\* C2: whenever a call to establish_connection fails (it prints its
\* diagnostic), in main or in a helper of the monthly loop, the run ends
\* without an uncaught exception.
C2_FailedConnectionEndsGracefully ==
    ConnError \in printed => exc = "none"

-----------------------------------------------------------------------------
(* 3_script.py: the live query and the mock data *)

RECURSIVE SumAmount(_)
\* SUM(amount) over the rows of S
SumAmount(S) ==
    IF S = {} THEN 0
    ELSE LET r == CHOOSE x \in S : TRUE
         IN  r.amount + SumAmount(S \ {r})

\* the values of S in increasing order
RECURSIVE Sorted(_)
Sorted(S) ==
    IF S = {} THEN <<>>
    ELSE <<SetMin(S)>> \o Sorted(S \ {SetMin(S)})

\* CompaniesClosedInMonth of fetch_monthly_data
CompaniesClosedInMonth(m) ==
    {c.id : c \in {x \in company :
                      ~IsNull(x.close_date) /\ MonthOf(Val(x.close_date)) = m}}

\* StripeIdsForCompaniesClosedInMonth
StripeIdsForCompaniesClosedInMonth(m) ==
    {ci.stripe_company_ids :
        ci \in {x \in company_identifiers :
                   x.company_id \in CompaniesClosedInMonth(m)}}

\* the invoice rows that InvoicesForCompaniesClosedInMonth groups: sent
\* between the cohort month and August
InvoicesForCompaniesClosedInMonth(m) ==
    {si \in stripe_invoice :
        /\ si.company_id \in StripeIdsForCompaniesClosedInMonth(m)
        /\ MonthOf(si.sent_date) >= m
        /\ MonthOf(si.sent_date) <= LastMonth}

\* fetch_monthly_data(conn, month): one row per invoice month, ordered
fetch_monthly_data(m) ==
    LET inv == InvoicesForCompaniesClosedInMonth(m)
        months == Sorted({MonthOf(si.sent_date) : si \in inv})
    IN  [k \in 1..Len(months) |->
            [cohort |-> m, label |-> "{month}", invoice_month |-> months[k],
             revenue |-> Some(SumAmount({si \in inv :
                                 MonthOf(si.sent_date) = months[k]}))]]

mock_data ==
    <<  <<292, 644, 621, 317, 649, 556, 328, 536>>,
        <<754, 317, 307, 187, 228, 57, 95>>,
        <<51, 693, 173, 99, 356, 378>>,
        <<206, 278, 79, 52, 85>>,
        <<69, 63, 56, 85>>,
        <<404, 160, 329>>,
        <<276, 119>>,
        <<293>>  >>

\* get_mock_revenue(cohort_month, invoice_month): a value, or None
get_mock_revenue(cohort_month, invoice_month) ==
    LET cohort_data == IF cohort_month \in DOMAIN mock_data
                       THEN mock_data[cohort_month] ELSE <<>>
    IN  IF 1 <= invoice_month /\ invoice_month <= Len(cohort_data)
        THEN Some(cohort_data[invoice_month])
        ELSE Null

RECURSIVE Flatten(_)
\* pd.concat of a list of dataframes
Flatten(dfs) ==
    IF dfs = <<>> THEN <<>> ELSE Head(dfs) \o Flatten(Tail(dfs))

\* generate_mock_data(): eight rows for each of the eight cohorts
generate_mock_data ==
    Flatten([m \in FirstMonth..LastMonth |->
                [i \in FirstMonth..LastMonth |->
                    [cohort |-> m, label |-> "2023-{month:02d}",
                     invoice_month |-> i,
                     revenue |-> get_mock_revenue(m, i)]]])

\* the cohort matrix of plot_cohort_heatmap: pivot_table keeps the cells with
\* a value (one row per cell here, so the mean is the value)
Pivot(df) ==
    {[cohort |-> df[k].cohort, invoice_month |-> df[k].invoice_month,
      revenue |-> Val(df[k].revenue)] :
        k \in {i \in 1..Len(df) : ~IsNull(df[i].revenue)}}

-----------------------------------------------------------------------------
(* 3_script.py: the run *)

\* main: establish_connection and the if/else on its result
Connect3 ==
    /\ pc = "start"
    /\ \/ /\ live' = live + 1
          /\ month' = FirstMonth
          /\ pc' = "loop"
          /\ UNCHANGED printed
       \/ /\ printed' = printed \cup {ConnError, ConnFailed}
          /\ pc' = "done"
          /\ UNCHANGED <<live, month>>
    /\ UNCHANGED <<phase, exc, injected, dbVars, s1Vars, s2Vars, s3Vars>>

\* one iteration of the loop of lines 163-165; a failing query is not caught
FetchMonthly ==
    /\ pc = "loop"
    /\ month <= LastMonth
    /\ \/ /\ all_dataframes' = Append(all_dataframes, fetch_monthly_data(month))
          /\ month' = month + 1
          /\ UNCHANGED <<pc, exc, injected>>
       \/ /\ injected' = TRUE
          /\ exc' = DatabaseError
          /\ pc' = "crashed"
          /\ UNCHANGED <<month, all_dataframes>>
    /\ UNCHANGED <<phase, live, printed, dbVars, s1Vars, s2Vars,
                   final_dataframe, plotted, synthetic_mode>>

\* lines 168-171: the live matrix is concatenated, the mock data is built and
\* handed to the heatmap
PlotHeatmap ==
    /\ pc = "loop"
    /\ month > LastMonth
    /\ final_dataframe' = DF(Flatten(all_dataframes))
    /\ plotted' = DF(generate_mock_data)
    /\ pc' = "plotted"
    /\ UNCHANGED <<phase, live, printed, exc, injected, dbVars, s1Vars, month,
                   s2Vars, all_dataframes, synthetic_mode>>

\* line 174: conn.close()
Close3 ==
    /\ pc = "plotted"
    /\ live' = live - 1
    /\ pc' = "done"
    /\ UNCHANGED <<phase, printed, exc, injected, dbVars, s1Vars, month,
                   s2Vars, s3Vars>>

Next3 ==
    \/ Connect3
    \/ FetchMonthly
    \/ PlotHeatmap
    \/ Close3

-----------------------------------------------------------------------------
(* 3_script.py: the database snapshots of the runs *)

InvoicedIds == 1..MaxInvoiced
StripeOf(c) == 500 + c

\* close dates in February and in March
CohortCloseDates == {FirstOfMonth(2) + 9, FirstOfMonth(3) + 4}

\* invoice dates before, in and after the cohort months, and after August
InvoiceDates == {FirstOfMonth(1) + 14, FirstOfMonth(2) + 14,
                 FirstOfMonth(3) + 14, FirstOfMonth(9) + 14}
\* the amount of an invoice of company c
AmountOf(c) == 100 * c

InitCohort ==
    /\ pc = "start"
    /\ phase = "main"
    /\ live = 0
    /\ printed = {}
    /\ exc = "none"
    /\ injected = FALSE
    /\ conversations = {}
    /\ df_companies = NoneDF
    /\ idx = 0
    /\ results = <<>>
    /\ df_success_dates = NoneDF
    /\ month = 0
    /\ companies = <<>>
    /\ successful_conversations = <<>>
    /\ successful_company_percentages = <<>>
    /\ all_dataframes = <<>>
    /\ final_dataframe = NoneDF
    /\ plotted = NoneDF
    /\ synthetic_mode \in BOOLEAN
    /\ \E close \in [InvoicedIds -> CohortCloseDates] :
          company = {[id |-> c, partner |-> FALSE,
                      close_date |-> Some(close[c])] : c \in InvoicedIds}
    /\ \E known \in SUBSET InvoicedIds :
          company_identifiers =
              {[company_id |-> c, stripe_company_ids |-> StripeOf(c)] :
                  c \in known}
    /\ \E sent \in SUBSET (InvoicedIds \X InvoiceDates) :
          stripe_invoice =
              {[company_id |-> StripeOf(k[1]), sent_date |-> k[2],
                amount |-> AmountOf(k[1])] : k \in sent}

SpecCohort == InitCohort /\ [][Next3]_vars

-----------------------------------------------------------------------------
(* 3_script.py: properties *)

\* no cell of the matrix lies before its cohort's month
StartsAtCohort(matrix) ==
    \A cell \in matrix : cell.invoice_month >= cell.cohort

\* C6: in the live-query mode and in the synthetic mode alike, the cohort
\* matrix has no value for an invoice month earlier than the cohort month.
C6_NoValueBeforeCohort ==
    /\ \A k \in 1..Len(all_dataframes) :
          StartsAtCohort(Pivot(all_dataframes[k]))
    /\ ~final_dataframe.isNone => StartsAtCohort(Pivot(final_dataframe.rows))
    /\ ~plotted.isNone => StartsAtCohort(Pivot(plotted.rows))

\* the matrix without its labels: the cells, by cohort and invoice month
Cells(df) ==
    {<<c.cohort, c.invoice_month, c.revenue>> : c \in Pivot(df.rows)}

\* C10: the data source is selected by configuration: the matrix handed to
\* the heatmap is the one of the live queries unless the synthetic mode is
\* selected, and then it is the one of the lookup table.
C10_SourceSelectedByConfiguration ==
    ~plotted.isNone =>
        Cells(plotted) = IF synthetic_mode
                         THEN Cells(DF(generate_mock_data))
                         ELSE Cells(final_dataframe)

=============================================================================
